---------------------------- MODULE Spec2Model ----------------------------
(***************************************************************************)
(* Model of the flow storage engine of 0g-storage-node:                    *)
(*   node/storage/src/log_store/flow_store.rs                              *)
(* FlowStore (facade), FlowDBStore (entry-batch column of the KV, the pad  *)
(* metadata and the Merkle node store) and the pending seal set of the     *)
(* SealTaskManager.                                                        *)
(*                                                                         *)
(* EntryBatch, SealTaskManager and ShardConfig live in other files of the  *)
(* crate; their operations are modelled from the specification (sections   *)
(* 3, 4.2) and are marked as such where they are defined.                  *)
(***************************************************************************)
EXTENDS Integers, Sequences, FiniteSets, TLC

(***************************************************************************)
(* Program constants (zgs_spec), scaled down.  The relation                *)
(* SECTORS_PER_LOAD = SEALS_PER_LOAD * SECTORS_PER_SEAL is kept.           *)
(***************************************************************************)
BYTES_PER_SECTOR == 2
\* a byte has the values 0..(ByteBase - 1); a u64, and a usize of the 64-bit
\* targets, is U64Bytes bytes; a DataRoot is ROOT_BYTES bytes
ByteBase == 256
U64Bytes == 8
ROOT_BYTES == 32
SECTORS_PER_SEAL == 2
SEALS_PER_LOAD == 2
SECTORS_PER_LOAD == SEALS_PER_LOAD * SECTORS_PER_SEAL

\* FlowConfig::default(): batch_size = SECTORS_PER_LOAD
batch_size == SECTORS_PER_LOAD

(***************************************************************************)
(* Bounds of the model.                                                    *)
(***************************************************************************)
\* batch indices 0..MaxBatch can be written
MaxBatch == 1
\* longest write, in sectors
MaxLen == 5
\* the seal version counter is explored up to this value
MaxVersion == 2
\* longest list of answers in one submit_seal_result
MaxAnswers == 3
\* number of distinct sector contents
NumVals == 2
\* tasks a sealer holds
MaxHeld == 3
\* calls in one run of Spec
MaxOps == 2
\* calls in one run of SealSpec
MaxSealOps == 5
\* number of distinct subtree lists
NumSubtrees == 1
\* calls in one run of ShardSpec
MaxShardOps == 4
\* calls in one run of StaleSpec
MaxStaleOps == 5
\* calls of the writers in one run of LiveSpec
MaxLiveOps == 3
\* batch_iter is applied to ranges in 0..MaxIterEnd and batches of up to
\* MaxIterBatch sectors
MaxIterEnd == 7
MaxIterBatch == 3
\* pad pairs have two different fields in (MaxPadVal - 1)..MaxPadVal, lists
\* up to MaxPadLen pairs, keys tx_seq in 0..MaxTxSeq
MaxPadVal == 2
MaxPadLen == 2
MaxTxSeq == 1
\* Merkle nodes of layers 0..MaxLayer and positions 0..MaxPos, NumRoots
\* distinct roots, layer sizes 0..MaxLayerSize, lists of up to MaxNodeList
\* nodes
MaxLayer == 1
MaxPos == 1
NumRoots == 1
MaxLayerSize == 1
MaxNodeList == 2

NumSectors == (MaxBatch + 1) * batch_size
NumSeals == (MaxBatch + 1) * SEALS_PER_LOAD
BatchIdx == 0..MaxBatch
SealIdx == 0..(NumSeals - 1)
LocalSeal == 0..(SEALS_PER_LOAD - 1)
Offsets == 0..(SECTORS_PER_LOAD - 1)

Max(a, b) == IF a >= b THEN a ELSE b
Min(a, b) == IF a <= b THEN a ELSE b

RECURSIVE SeqOfSet(_)
\* the elements of a set of integers in ascending order
SeqOfSet(S) ==
    IF S = {} THEN <<>>
    ELSE LET m == CHOOSE x \in S : \A y \in S : x <= y
         IN <<m>> \o SeqOfSet(S \ {m})

(***************************************************************************)
(* EntryBatch (load_chunk), modelled from the specification, section 3:    *)
(* up to SECTORS_PER_LOAD sectors and a per-seal-unit state                *)
(* {empty | unsealed-present | sealed}.  data[o] = 0 is a missing sector.  *)
(***************************************************************************)
NoData == [o \in Offsets |-> 0]

\* the empty subtree list
NoSubtrees == 0

\* EntryBatch::new
EntryBatchNew == [present |-> TRUE, data |-> NoData, sealed |-> {}, subtree |-> NoSubtrees]

\* no row in COL_ENTRY_BATCH
NoBatch == [present |-> FALSE, data |-> NoData, sealed |-> {}, subtree |-> NoSubtrees]

UnitOffsets(u) == (u * SECTORS_PER_SEAL)..((u + 1) * SECTORS_PER_SEAL - 1)

UnitPresent(b, u) == \A o \in UnitOffsets(u) : b.data[o] # 0

\* EntryBatch::insert_data(offset, bytes) -> completed local seal indices.
\* The sectors are written (last writer wins); a unit whose raw data is
\* replaced is no longer sealed; the units the write touched that are now
\* completely present are returned.
BatchInsertData(b, offset, sectors) ==
    LET n == Len(sectors)
        touched == {u \in LocalSeal :
                      \E o \in UnitOffsets(u) : o >= offset /\ o < offset + n}
        nb == [b EXCEPT
                 !.data = [o \in Offsets |->
                             IF o >= offset /\ o < offset + n
                             THEN sectors[o - offset + 1] ELSE b.data[o]],
                 !.sealed = b.sealed \ touched]
    IN [batch |-> nb,
        completed |-> SeqOfSet({u \in touched : UnitPresent(nb, u)})]

\* EntryBatch::get_unsealed_data(offset, length): the raw sectors, whether or
\* not their unit is sealed; None when a sector of the range is missing.
BatchGetUnsealedData(b, offset, length) ==
    IF offset + length <= SECTORS_PER_LOAD
       /\ \A o \in offset..(offset + length - 1) : b.data[o] # 0
    THEN [some |-> TRUE, data |-> [i \in 1..length |-> b.data[offset + i - 1]]]
    ELSE [some |-> FALSE, data |-> <<>>]

\* EntryBatch::get_sealed_data(local seal index)
BatchGetSealedData(b, u) ==
    IF u \in b.sealed
    THEN [some |-> TRUE,
          data |-> [i \in 1..SECTORS_PER_SEAL |-> b.data[u * SECTORS_PER_SEAL + i - 1]]]
    ELSE [some |-> FALSE, data |-> <<>>]

\* EntryBatch::get_non_sealed_data(local seal index)
BatchGetNonSealedData(b, u) ==
    IF u \notin b.sealed /\ UnitPresent(b, u)
    THEN [some |-> TRUE,
          data |-> [i \in 1..SECTORS_PER_SEAL |-> b.data[u * SECTORS_PER_SEAL + i - 1]]]
    ELSE [some |-> FALSE, data |-> <<>>]

\* EntryBatch::submit_seal_result(answer): fails iff the answer is
\* self-inconsistent, else the unit becomes sealed.
BatchSubmitSealResult(b, answer) ==
    IF answer.valid
    THEN [ok |-> TRUE,
          batch |-> [b EXCEPT !.sealed = b.sealed \cup {answer.seal_index % SEALS_PER_LOAD}]]
    ELSE [ok |-> FALSE, batch |-> b]

\* EntryBatch::truncate(offset) -> local seal indices to reseal: the sectors
\* from offset on are dropped; the sealed units that survive are unsealed
\* and returned.
BatchTruncate(b, offset) ==
    LET reseal == {u \in b.sealed : u < offset \div SECTORS_PER_SEAL}
    IN [batch |-> [b EXCEPT
                     !.data = [o \in Offsets |-> IF o < offset THEN b.data[o] ELSE 0],
                     !.sealed = {}],
        reseal |-> SeqOfSet(reseal)]

\* EntryBatch::is_empty
BatchIsEmpty(b) == \A o \in Offsets : b.data[o] = 0

\* EntryBatch::set_subtree_list
BatchSetSubtreeList(b, subtree_list) == [b EXCEPT !.subtree = subtree_list]

\* EntryBatch::build_root(is_first): a root exists once the batch is complete
BatchBuildRoot(b) == \A o \in Offsets : b.data[o] # 0

\* ShardConfig::in_range(batch index)
InRange(cfg, chunk_index) == chunk_index % cfg.num_shard = cfg.shard_id


(***************************************************************************)
(* State.                                                                  *)
(***************************************************************************)
VARIABLES
    kv,               \* data_db, COL_ENTRY_BATCH: batch index -> EntryBatch row
    to_seal_set,      \* seal_manager.to_seal_set: seal index -> version
    to_seal_version,  \* seal_manager.to_seal_version
    worker,           \* seal_manager.seal_worker_available()
    shard_config,     \* config.shard_config
    deleting,         \* delete_batch_list between its two calls: <<batch set>>
    inserting,        \* insert_subtree_list_for_batch between its load and its
                      \* write: <<(batch_index, batch)>>
    held,             \* tasks a sealer has pulled and not yet answered
    pad_data_list,    \* flow_db, COL_PAD_DATA_LIST: key bytes -> value bytes
    pad_sync_height,  \* data_db, COL_PAD_DATA_SYNC_HEIGH: <<>> or <<value bytes>>
    mpt_nodes,        \* flow_db, COL_FLOW_MPT_NODES: key bytes -> value bytes
    last,             \* the call that just returned, with its result
    faulted,          \* some call so far met a failing KV or batch operation
    nops              \* calls so far

vars == <<kv, to_seal_set, to_seal_version, worker, shard_config, deleting,
          inserting, held, pad_data_list, pad_sync_height, mpt_nodes, last,
          faulted, nops>>

\* the variables of the entry-batch store and the seal manager
flow_vars == <<kv, to_seal_set, to_seal_version, worker, shard_config, deleting,
               inserting, held, faulted, nops>>

\* the variables of the pad metadata and the Merkle node column
pad_vars == <<pad_data_list, pad_sync_height, mpt_nodes>>

ShardConfigs ==
    {[num_shard |-> 1, shard_id |-> 0],
     [num_shard |-> 2, shard_id |-> 1]}

\* the k-th sector of the write with tag t
SectorVal(t, k) == ((t + k) % NumVals) + 1

MkData(t, n) == [k \in 1..n |-> SectorVal(t, k)]

Pending == DOMAIN to_seal_set

\* BTreeMap::insert
MapInsert(m, k, v) == [x \in (DOMAIN m) \cup {k} |-> IF x = k THEN v ELSE m[x]]

\* BTreeMap::remove of a set of keys
MapRemove(m, ks) == [x \in (DOMAIN m) \ ks |-> m[x]]

RECURSIVE MapInsertAll(_, _, _)
MapInsertAll(m, ks, v) ==
    IF ks = <<>> THEN m ELSE MapInsertAll(MapInsert(m, Head(ks), v), Tail(ks), v)

(***************************************************************************)
(* Batch iterator utilities.                                               *)
(***************************************************************************)
\* mutant: a range begins at the boundary of its batch
batch_iter_whole(start, end, bs) ==
    LET first == (start \div bs) * bs
        n == IF end > first THEN (end - first + bs - 1) \div bs ELSE 0
    IN [k \in 1..n |-> <<first + (k - 1) * bs, Min(end, first + k * bs)>>]

\* batch_iter(start, end, batch_size)
batch_iter(start, end, bs) ==
    LET first == (start \div bs) * bs
        n == IF end > first THEN (end - first + bs - 1) \div bs ELSE 0
    IN [k \in 1..n |->
          <<Max(start, first + (k - 1) * bs), Min(end, first + k * bs)>>]

\* batch_iter_sharded(start, end, batch_size, shard_config)
batch_iter_sharded(start, end, bs, cfg) ==
    SelectSeq(batch_iter(start, end, bs),
              LAMBDA r : (r[1] \div bs) % cfg.num_shard = cfg.shard_id)

\* bytes_to_entries
bytes_to_entries(nbytes) == nbytes \div BYTES_PER_SECTOR

(***************************************************************************)
(* FlowDBStore.                                                            *)
(***************************************************************************)
RECURSIVE PutAll(_, _)
\* tx.put of every (batch_index, batch) of the list, in order, then write
PutAll(db, list) ==
    IF list = <<>> THEN db
    ELSE PutAll([db EXCEPT ![Head(list)[1]] = Head(list)[2]], Tail(list))

\* mutant: only the first batch of the list is written
put_entry_raw_first(db, list) ==
    IF list = <<>> THEN db ELSE PutAll(db, <<Head(list)>>)

\* FlowDBStore::put_entry_raw
put_entry_raw(db, list) == PutAll(db, list)

\* mutant: every batch of the list is reported as completed
put_entry_batch_list_all(db, list) ==
    [kv |-> PutAll(db, list),
     roots |-> [i \in 1..Len(list) |-> list[i][1]]]

\* FlowDBStore::put_entry_batch_list: the rows written and the completed
\* batches, in the order of the list
put_entry_batch_list(db, list) ==
    [kv |-> PutAll(db, list),
     roots |-> SelectSeq([i \in 1..Len(list) |-> list[i][1]],
                         LAMBDA b : \E i \in 1..Len(list) :
                                       list[i][1] = b /\ BatchBuildRoot(list[i][2]))]

\* FlowDBStore::delete_batch_list
db_delete_batch_list(db, batch_list) ==
    [b \in BatchIdx |-> IF b \in batch_list THEN NoBatch ELSE db[b]]

(***************************************************************************)
(* Pad metadata.  A PadPair is encoded as its two u64 fields, big-endian,  *)
(* a list as the concatenation of its pairs.                               *)
(***************************************************************************)
RECURSIVE be_bytes(_, _)
\* the n low bytes of v, the most significant first
be_bytes(v, n) ==
    IF n = 0 THEN <<>> ELSE be_bytes(v \div ByteBase, n - 1) \o <<v % ByteBase>>

\* u64::to_be_bytes, usize::to_be_bytes
to_be_bytes(v) == be_bytes(v, U64Bytes)

RECURSIVE from_be_bytes(_)
\* u64::from_be_bytes
from_be_bytes(bytes) ==
    IF bytes = <<>> THEN 0
    ELSE bytes[Len(bytes)] + ByteBase * from_be_bytes(SubSeq(bytes, 1, Len(bytes) - 1))

\* PadPair::as_ssz_bytes
PadPairEncode(item) == to_be_bytes(item.start_index) \o to_be_bytes(item.data_size)

RECURSIVE PadBuffer(_)
\* the buffer put_pad_data builds: the encodings of the items, in order
PadBuffer(data_sizes) ==
    IF data_sizes = <<>> THEN <<>>
    ELSE PadPairEncode(Head(data_sizes)) \o PadBuffer(Tail(data_sizes))

\* Vec::<PadPair>::from_ssz_bytes: the records of fixed width, in order
PadListDecode(v) ==
    LET w == 2 * U64Bytes
    IN IF Len(v) % w # 0 THEN [ret |-> "err", pairs |-> <<>>]
       ELSE [ret |-> "some",
             pairs |-> [i \in 1..(Len(v) \div w) |->
                          [start_index |-> from_be_bytes(SubSeq(v, (i - 1) * w + 1,
                                                               (i - 1) * w + U64Bytes)),
                           data_size |-> from_be_bytes(SubSeq(v, (i - 1) * w + U64Bytes + 1,
                                                             i * w))]]]

\* mutant: the value is stored under the same key for every tx_seq
PadKeyConst(tx_seq) == to_be_bytes(0)

\* the key of COL_PAD_DATA_LIST
PadKey(tx_seq) == to_be_bytes(tx_seq)

\* FlowDBStore::get_pad_data
get_pad_data(db, tx_seq) ==
    IF PadKey(tx_seq) \in DOMAIN db
    THEN PadListDecode(db[PadKey(tx_seq)])
    ELSE [ret |-> "none", pairs |-> <<>>]

\* FlowDBStore::get_pad_data_sync_height
get_pad_data_sync_height(h) ==
    IF h = <<>> THEN [ret |-> "none", height |-> 0]
    ELSE IF Len(h[1]) # U64Bytes THEN [ret |-> "err", height |-> 0]
    ELSE [ret |-> "some", height |-> from_be_bytes(h[1])]

\* FlowStore::put_pad_data -> FlowDBStore::put_pad_data
PutPadData(data_sizes, tx_seq, fail) ==
    /\ last' = [op |-> "put_pad_data", pairs |-> data_sizes, tx_seq |-> tx_seq,
                ret |-> IF fail THEN "err" ELSE "ok"]
    /\ pad_data_list' =
         IF fail THEN pad_data_list
         ELSE [k \in (DOMAIN pad_data_list) \cup {PadKey(tx_seq)} |->
                 IF k = PadKey(tx_seq) THEN PadBuffer(data_sizes) ELSE pad_data_list[k]]
    /\ UNCHANGED <<pad_sync_height, mpt_nodes>>
    /\ UNCHANGED flow_vars

\* FlowStore::put_pad_data_sync_height -> FlowDBStore::put_pad_data_sync_height
PutPadDataSyncHeight(sync_index, fail) ==
    /\ last' = [op |-> "put_pad_data_sync_height", height |-> sync_index,
                ret |-> IF fail THEN "err" ELSE "ok"]
    /\ pad_sync_height' = IF fail THEN pad_sync_height ELSE <<to_be_bytes(sync_index)>>
    /\ UNCHANGED <<pad_data_list, mpt_nodes>>
    /\ UNCHANGED flow_vars

(***************************************************************************)
(* The Merkle node store: NodeDatabase for FlowDBStore and NodeTransaction *)
(* for NodeDBTransaction, over the column COL_FLOW_MPT_NODES.              *)
(***************************************************************************)
\* encode_mpt_node_key
encode_mpt_node_key(layer_index, position) ==
    to_be_bytes(layer_index) \o to_be_bytes(position)

\* "layer_size".as_bytes()
LayerSizePrefix == <<108, 97, 121, 101, 114, 95, 115, 105, 122, 101>>

\* mutant: the key of a layer size has no prefix and the width of a node key
layer_size_key_bare(layer) == to_be_bytes(layer) \o to_be_bytes(0)

\* layer_size_key
layer_size_key(layer) == LayerSizePrefix \o to_be_bytes(layer)

\* DataRoot::as_bytes of the root number r
RootBytes(r) == [i \in 1..ROOT_BYTES |-> r]

\* DBTransaction::put, DBTransaction::delete
TxPut(key, value) == [kind |-> "put", key |-> key, value |-> value]
TxDelete(key) == [kind |-> "delete", key |-> key, value |-> <<>>]

\* NodeTransaction::save_node
save_node(tx, layer, pos, node) ==
    Append(tx, TxPut(encode_mpt_node_key(layer, pos), RootBytes(node)))

RECURSIVE save_node_list(_, _)
\* NodeTransaction::save_node_list
save_node_list(tx, nodes) ==
    IF nodes = <<>> THEN tx
    ELSE save_node_list(
           Append(tx, TxPut(encode_mpt_node_key(Head(nodes)[1], Head(nodes)[2]),
                            RootBytes(Head(nodes)[3]))),
           Tail(nodes))

RECURSIVE remove_node_list(_, _)
\* NodeTransaction::remove_node_list
remove_node_list(tx, nodes) ==
    IF nodes = <<>> THEN tx
    ELSE remove_node_list(
           Append(tx, TxDelete(encode_mpt_node_key(Head(nodes)[1], Head(nodes)[2]))),
           Tail(nodes))

\* NodeTransaction::save_layer_size
save_layer_size(tx, layer, size) ==
    Append(tx, TxPut(layer_size_key(layer), to_be_bytes(size)))

\* NodeTransaction::remove_layer_size
remove_layer_size(tx, layer) == Append(tx, TxDelete(layer_size_key(layer)))

RECURSIVE KvWrite(_, _)
\* kvdb.write(tx): the operations of the transaction, in order
KvWrite(db, tx) ==
    IF tx = <<>> THEN db
    ELSE LET o == Head(tx)
             db2 == IF o.kind = "put"
                    THEN [k \in (DOMAIN db) \cup {o.key} |->
                            IF k = o.key THEN o.value ELSE db[k]]
                    ELSE [k \in (DOMAIN db) \ {o.key} |-> db[k]]
         IN KvWrite(db2, Tail(tx))

\* NodeDatabase::get_node: None, the root, or a panic of DataRoot::from_slice
get_node(db, layer, pos) ==
    LET key == encode_mpt_node_key(layer, pos)
    IN IF key \notin DOMAIN db THEN [ret |-> "none", node |-> <<>>]
       ELSE IF Len(db[key]) # ROOT_BYTES THEN [ret |-> "panic", node |-> <<>>]
       ELSE [ret |-> "some", node |-> db[key]]

\* NodeDatabase::get_layer_size
get_layer_size(db, layer) ==
    LET key == layer_size_key(layer)
    IN IF key \notin DOMAIN db THEN [ret |-> "none", size |-> 0]
       ELSE IF Len(db[key]) # U64Bytes THEN [ret |-> "err", size |-> 0]
       ELSE [ret |-> "some", size |-> from_be_bytes(db[key])]

\* NodeDatabase::commit of a transaction built by one call of op
Commit(op, tx, fail) ==
    /\ last' = [op |-> op, ret |-> IF fail THEN "err" ELSE "ok"]
    /\ mpt_nodes' = IF fail THEN mpt_nodes ELSE KvWrite(mpt_nodes, tx)
    /\ UNCHANGED <<pad_data_list, pad_sync_height>>
    /\ UNCHANGED flow_vars

\* batch_iter and batch_iter_sharded applied to one input
BatchIterCall(start, end, bs, cfg) ==
    /\ last' = [op |-> "batch_iter", start |-> start, end |-> end, bs |-> bs,
                cfg |-> cfg, ret |-> "ok",
                out |-> batch_iter(start, end, bs),
                sharded |-> batch_iter_sharded(start, end, bs, cfg)]
    /\ UNCHANGED pad_vars
    /\ UNCHANGED flow_vars

\* mutant: start_batch_index is not advanced past the boundary batch
TruncFirstWholeSame(start_index, bs) == start_index \div bs

\* first batch index that FlowDBStore::truncate deletes whole
TruncFirstWhole(start_index, bs) ==
    IF start_index % bs # 0 THEN start_index \div bs + 1 ELSE start_index \div bs

\* mutant: only the last row is deleted
TruncDeletedLast(from, end) == IF from <= end THEN {end} ELSE {}

\* the rows FlowDBStore::truncate deletes whole: start_batch_index..=end
TruncDeleted(from, end) == from..end

\* FlowDBStore::truncate(start_index, batch_size): the rows after the
\* transaction and the global seal indices to reseal
db_truncate(db, start_index, bs) ==
    LET start_batch_index == start_index \div bs
        first_batch_offset == start_index % bs
        boundary == first_batch_offset # 0
                    /\ start_batch_index \in BatchIdx
                    /\ db[start_batch_index].present
        tr == BatchTruncate(db[start_batch_index], first_batch_offset)
        index_to_reseal ==
            IF boundary
            THEN [i \in 1..Len(tr.reseal) |->
                    start_batch_index * SEALS_PER_LOAD + tr.reseal[i]]
            ELSE <<>>
        present == {b \in BatchIdx : db[b].present}
        from == TruncFirstWhole(start_index, bs)
    IN IF present = {}
       THEN [kv |-> db, reseal |-> index_to_reseal]
       ELSE LET end == CHOOSE b \in present : \A c \in present : c <= b
            IN [kv |-> [b \in BatchIdx |->
                          IF b \in TruncDeleted(from, end) THEN NoBatch
                          ELSE IF boundary /\ b = start_batch_index
                               THEN IF BatchIsEmpty(tr.batch) THEN NoBatch ELSE tr.batch
                               ELSE db[b]],
                reseal |-> index_to_reseal]

(***************************************************************************)
(* FlowStore::append_entries.                                              *)
(***************************************************************************)
\* mutant: the size check is left out
MisalignedNever(nbytes) == FALSE

\* the size check of append_entries
Misaligned(nbytes) == nbytes % BYTES_PER_SECTOR # 0

\* mutant: no slice is skipped
SkipSliceNever(chunk_index) == FALSE

\* the shard check: the slice is in a batch this node does not store
SkipSlice(chunk_index) == ~InRange(shard_config, chunk_index)

\* mutant: the global index is used as the offset in the batch
InsertOffsetGlobal(start_index) == start_index

\* the offset in the batch insert_data is given
InsertOffset(start_index) == start_index % batch_size

\* mutant: the completed units are registered whether or not a sealer polls
RegisterSealsAlways(set, keys) == MapInsertAll(set, keys, to_seal_version)

\* the completed units enter the pending set with the current version, only
\* if seal_worker_available()
RegisterSeals(set, keys) ==
    IF worker THEN MapInsertAll(set, keys, to_seal_version) ELSE set

RECURSIVE AppendLoop(_, _, _, _, _, _, _)
\* The loop over batch_iter's slices, from slice i on.  set is the pending
\* set, list the batch_list built so far.  failAt = i makes the load or the
\* insert_data of slice i fail (the `?` of lines 248 and 253).
AppendLoop(slices, i, set, list, start, data, failAt) ==
    IF i > Len(slices) THEN [err |-> FALSE, set |-> set, list |-> list]
    ELSE
      LET s == slices[i][1]
          e == slices[i][2]
          \* data.sub_array(start_entry_index, end_entry_index)
          chunk == SubSeq(data, s - start + 1, e - start)
          chunk_index == s \div batch_size
      IN IF SkipSlice(chunk_index)
         THEN AppendLoop(slices, i + 1, set, list, start, data, failAt)
         ELSE IF failAt = i
         THEN [err |-> TRUE, set |-> set, list |-> list]
         ELSE
           LET batch == IF kv[chunk_index].present THEN kv[chunk_index]
                        ELSE EntryBatchNew
               ins == BatchInsertData(batch, InsertOffset(s), chunk)
               keys == [k \in 1..Len(ins.completed) |->
                          chunk_index * SEALS_PER_LOAD + ins.completed[k]]
               set2 == RegisterSeals(set, keys)
           IN AppendLoop(slices, i + 1, set2,
                         Append(list, <<chunk_index, ins.batch>>),
                         start, data, failAt)

AppendEntries(start, n, tag, extra, failAt) ==
    LET data == MkData(tag, n)
        nbytes == n * BYTES_PER_SECTOR + extra
        slices == batch_iter(start, start + bytes_to_entries(nbytes), batch_size)
        r == AppendLoop(slices, 1, to_seal_set, <<>>, start, data, failAt)
        put == put_entry_batch_list(kv, r.list)
        args == [op |-> "append_entries", start |-> start, len |-> n,
                 tag |-> tag, extra |-> extra]
    IN /\ nops' = nops + 1
       /\ IF Misaligned(nbytes)
          THEN /\ last' = args @@ [ret |-> "err", roots |-> <<>>]
               /\ UNCHANGED <<kv, to_seal_set, faulted>>
          ELSE IF r.err
          THEN \* an error inside the loop: the pending set keeps what the
               \* earlier slices inserted, nothing is written
               /\ last' = args @@ [ret |-> "err", roots |-> <<>>]
               /\ to_seal_set' = r.set
               /\ faulted' = TRUE
               /\ UNCHANGED kv
          ELSE IF failAt = Len(slices) + 1
          THEN \* put_entry_batch_list fails (build_root or kvdb.write)
               /\ last' = args @@ [ret |-> "err", roots |-> <<>>]
               /\ to_seal_set' = r.set
               /\ faulted' = TRUE
               /\ UNCHANGED kv
          ELSE /\ last' = args @@ [ret |-> "ok", roots |-> put.roots]
               /\ to_seal_set' = r.set
               /\ kv' = put.kv
               /\ UNCHANGED faulted
       /\ UNCHANGED <<to_seal_version, worker, shard_config, deleting, inserting, held>>

(***************************************************************************)
(* FlowStore::truncate.                                                    *)
(***************************************************************************)
\* mutant: the key itself is kept
SplitOffAfter(m, key) == [x \in {k \in DOMAIN m : k <= key} |-> m[x]]

\* mutant: the map keeps nothing
SplitOffNone(m, key) == [x \in {} |-> 0]

\* BTreeMap::split_off(&key): the map keeps the keys below key
SplitOff(m, key) == [x \in {k \in DOMAIN m : k < key} |-> m[x]]

\* mutant: the units to reseal get the version before the increment
InsertResealOld(set, to_reseal, new_seal_version) ==
    MapInsertAll(set, to_reseal, new_seal_version - 1)

\* to_reseal.into_iter().for_each(|x| to_seal_set.insert(x, new_seal_version))
InsertReseal(set, to_reseal, new_seal_version) ==
    MapInsertAll(set, to_reseal, new_seal_version)

\* SealTaskManager::inc_seal_version
IncSealVersion(v) == v + 1

Truncate(start_index, fail) ==
    LET t == db_truncate(kv, start_index, batch_size)
        new_seal_version == IncSealVersion(to_seal_version)
        args == [op |-> "truncate", start |-> start_index]
    IN /\ to_seal_version < MaxVersion
       /\ nops' = nops + 1
       /\ IF fail
          THEN \* data_db.truncate(..)? returns before anything is written
               /\ last' = args @@ [ret |-> "err", reseal |-> <<>>]
               /\ faulted' = TRUE
               /\ UNCHANGED <<kv, to_seal_set, to_seal_version>>
          ELSE /\ last' = args @@ [ret |-> "ok", reseal |-> t.reseal]
               /\ kv' = t.kv
               /\ to_seal_version' = new_seal_version
               /\ to_seal_set' =
                    InsertReseal(SplitOff(to_seal_set, start_index \div SECTORS_PER_SEAL),
                                 t.reseal, new_seal_version)
               /\ UNCHANGED faulted
       /\ UNCHANGED <<worker, shard_config, deleting, inserting, held>>

(***************************************************************************)
(* FlowStore::update_shard_config; the sealer's poll going stale.          *)
(***************************************************************************)
UpdateShardConfig(cfg) ==
    /\ cfg # shard_config
    /\ nops' = nops + 1
    /\ shard_config' = cfg
    /\ last' = [op |-> "update_shard_config", ret |-> "ok"]
    /\ UNCHANGED <<kv, to_seal_set, to_seal_version, worker, deleting, inserting,
                   held, faulted>>

\* seal_worker_available() turns false when no sealer polled for a while
WorkerTimeout ==
    /\ worker
    /\ worker' = FALSE
    /\ UNCHANGED <<kv, to_seal_set, to_seal_version, shard_config, deleting,
                   inserting, held, last, faulted, nops>>
    /\ UNCHANGED pad_vars

(***************************************************************************)
(* FlowStore::delete_batch_list: two calls, the first one under the        *)
(* pending-set lock, the second one outside it.                            *)
(***************************************************************************)
\* SealTaskManager::delete_batch_list
SealDeleteBatchList(m, batch_list) ==
    [x \in {k \in DOMAIN m : (k \div SEALS_PER_LOAD) \notin batch_list} |-> m[x]]

DeleteBatchListSeal(batch_list) ==
    /\ deleting = <<>>
    /\ nops' = nops + 1
    /\ to_seal_set' = SealDeleteBatchList(to_seal_set, batch_list)
    /\ deleting' = <<batch_list>>
    /\ last' = [op |-> "delete_batch_list.seal", ret |-> "ok"]
    /\ UNCHANGED <<kv, to_seal_version, worker, shard_config, inserting, held, faulted>>

DeleteBatchListDb(fail) ==
    /\ deleting # <<>>
    /\ deleting' = <<>>
    /\ kv' = IF fail THEN kv ELSE db_delete_batch_list(kv, deleting[1])
    /\ faulted' = (faulted \/ fail)
    /\ last' = [op |-> "delete_batch_list", ret |-> IF fail THEN "err" ELSE "ok",
                list |-> deleting[1]]
    /\ UNCHANGED <<to_seal_set, to_seal_version, worker, shard_config, inserting,
                   held, nops>>

(***************************************************************************)
(* FlowStore::insert_subtree_list_for_batch: a load and a write of the     *)
(* batch with no lock held between them.                                   *)
(***************************************************************************)
InsertSubtreeLoad(batch_index, subtree_list) ==
    LET batch == IF kv[batch_index].present THEN kv[batch_index] ELSE EntryBatchNew
    IN /\ inserting = <<>>
       /\ nops' = nops + 1
       /\ inserting' = <<(<<batch_index, BatchSetSubtreeList(batch, subtree_list)>>)>>
       /\ last' = [op |-> "insert_subtree_list_for_batch.load", ret |-> "ok"]
       /\ UNCHANGED <<kv, to_seal_set, to_seal_version, worker, shard_config,
                      deleting, held, faulted>>

InsertSubtreeStore(fail) ==
    /\ inserting # <<>>
    /\ inserting' = <<>>
    /\ kv' = IF fail THEN kv ELSE put_entry_raw(kv, inserting)
    /\ faulted' = (faulted \/ fail)
    /\ last' = [op |-> "insert_subtree_list_for_batch",
                ret |-> IF fail THEN "err" ELSE "ok",
                index |-> inserting[1][1], batch |-> inserting[1][2]]
    /\ UNCHANGED <<to_seal_set, to_seal_version, worker, shard_config, deleting,
                   held, nops>>

(***************************************************************************)
(* FlowStore::pull_seal_chunk.                                             *)
(***************************************************************************)
\* mutant: the later keys are not compared with seal_index_max
PullKeysNoMax(set, seal_index_max) ==
    LET first_index == CHOOSE x \in DOMAIN set : \A y \in DOMAIN set : x <= y
    IN <<first_index>> \o
       SeqOfSet({x \in (DOMAIN set) \ {first_index} :
                   first_index \div SEALS_PER_LOAD = x \div SEALS_PER_LOAD})

\* the keys pull_seal_chunk makes tasks of: the first key, then the later
\* keys of the same batch below seal_index_max, ascending
PullKeys(set, seal_index_max) ==
    LET first_index == CHOOSE x \in DOMAIN set : \A y \in DOMAIN set : x <= y
    IN <<first_index>> \o
       SeqOfSet({x \in (DOMAIN set) \ {first_index} :
                   /\ first_index \div SEALS_PER_LOAD = x \div SEALS_PER_LOAD
                   /\ x < seal_index_max})

\* the result of pull_seal_chunk: "none", "some" with the tasks, or "panic"
\* (one of the two expect()s)
PullResult(set, db, seal_index_max) ==
    IF DOMAIN set = {} THEN [ret |-> "none", tasks |-> <<>>]
    ELSE
      LET keys == PullKeys(set, seal_index_max)
          first_index == keys[1]
          batch_data == db[first_index \div SEALS_PER_LOAD]
      IN IF first_index >= seal_index_max THEN [ret |-> "none", tasks |-> <<>>]
         ELSE IF ~batch_data.present THEN [ret |-> "panic", tasks |-> <<>>]
         ELSE IF \E i \in 1..Len(keys) :
                   ~BatchGetNonSealedData(batch_data, keys[i] % SEALS_PER_LOAD).some
         THEN [ret |-> "panic", tasks |-> <<>>]
         ELSE [ret |-> "some",
               tasks |-> [i \in 1..Len(keys) |->
                            [seal_index |-> keys[i], version |-> set[keys[i]],
                             non_sealed_data |->
                               BatchGetNonSealedData(batch_data,
                                                     keys[i] % SEALS_PER_LOAD).data]]]

\* the sealer keeps the tasks it pulled; it drops the older ones when it
\* would hold more than MaxHeld
Keep(old, new) == IF Cardinality(old \cup new) <= MaxHeld THEN old \cup new ELSE new

\* one call of pull_seal_chunk, not counted
PullSealChunkCall(seal_index_max) ==
    LET r == PullResult(to_seal_set, kv, seal_index_max)
    IN /\ worker' = TRUE
       /\ held' = Keep(held, {r.tasks[i] : i \in 1..Len(r.tasks)})
       /\ last' = [op |-> "pull_seal_chunk", max |-> seal_index_max,
                   ret |-> r.ret, tasks |-> r.tasks]
       /\ UNCHANGED <<kv, to_seal_set, to_seal_version, shard_config, deleting,
                      inserting, faulted>>

PullSealChunk(seal_index_max) ==
    nops' = nops + 1 /\ PullSealChunkCall(seal_index_max)

(***************************************************************************)
(* FlowStore::submit_seal_result.                                          *)
(***************************************************************************)
\* mutant: the version is not compared
IsConsistentAnyVersion(set, answer) == answer.seal_index \in DOMAIN set

\* the closure is_consistent
IsConsistent(set, answer) ==
    /\ answer.seal_index \in DOMAIN set
    /\ set[answer.seal_index] = answer.version

LoadIndex(answer) == answer.seal_index \div SEALS_PER_LOAD

RECURSIVE ChunkBy(_)
\* Itertools::chunk_by on the load index: runs of adjacent answers with the
\* same key
ChunkBy(as) ==
    IF as = <<>> THEN <<>>
    ELSE LET rest == ChunkBy(Tail(as))
         IN IF rest # <<>> /\ LoadIndex(Head(rest)[1]) = LoadIndex(Head(as))
            THEN <<(<<Head(as)>> \o Head(rest))>> \o Tail(rest)
            ELSE <<(<<Head(as)>>)>> \o rest

RECURSIVE ApplyAnswers(_, _)
\* the inner loop: batch_chunk.submit_seal_result(answer)? for each answer
ApplyAnswers(batch, as) ==
    IF as = <<>> THEN [ok |-> TRUE, batch |-> batch]
    ELSE LET r == BatchSubmitSealResult(batch, Head(as))
         IN IF r.ok THEN ApplyAnswers(r.batch, Tail(as)) ELSE r

RECURSIVE SubmitLoop(_, _, _, _, _)
\* the loop over the groups, from group i on
SubmitLoop(db, groups, i, updated_chunk, removed_seal_index) ==
    IF i > Len(groups)
    THEN [ret |-> "ok", updated |-> updated_chunk, removed |-> removed_seal_index]
    ELSE
      LET load_index == LoadIndex(groups[i][1])
          r == ApplyAnswers(db[load_index], groups[i])
      IN IF ~db[load_index].present
         THEN [ret |-> "panic", updated |-> <<>>, removed |-> {}]
         ELSE IF ~r.ok
         THEN [ret |-> "err", updated |-> <<>>, removed |-> {}]
         ELSE SubmitLoop(db, groups, i + 1,
                         Append(updated_chunk, <<load_index, r.batch>>),
                         removed_seal_index \cup
                           {groups[i][k].seal_index : k \in 1..Len(groups[i])})

\* the answers that pass the filter, in the order given
Accepted(set, answers) == SelectSeq(answers, LAMBDA a : IsConsistent(set, a))

\* one call of submit_seal_result, not counted
SubmitSealResultCall(answers, kvFail) ==
    LET r == SubmitLoop(kv, ChunkBy(Accepted(to_seal_set, answers)), 1, <<>>, {})
        args == [op |-> "submit_seal_result", answers |-> answers,
                 accepted |-> Accepted(to_seal_set, answers)]
    IN /\ held' = held \ {[seal_index |-> answers[i].seal_index,
                           version |-> answers[i].version,
                           non_sealed_data |-> answers[i].non_sealed_data] :
                            i \in 1..Len(answers)}
       /\ IF r.ret # "ok"
          THEN /\ last' = args @@ [ret |-> r.ret]
               /\ faulted' = (faulted \/ r.ret = "err")
               /\ UNCHANGED <<kv, to_seal_set>>
          ELSE /\ to_seal_set' = MapRemove(to_seal_set, r.removed)
               /\ IF kvFail
                  THEN /\ last' = args @@ [ret |-> "err"]
                       /\ faulted' = TRUE
                       /\ UNCHANGED kv
                  ELSE /\ last' = args @@ [ret |-> "ok"]
                       /\ kv' = put_entry_raw(kv, r.updated)
                       /\ UNCHANGED faulted
       /\ UNCHANGED <<to_seal_version, worker, shard_config, deleting, inserting>>

SubmitSealResult(answers, kvFail) ==
    nops' = nops + 1 /\ SubmitSealResultCall(answers, kvFail)

\* the lists of answers a sealer can send: distinct held tasks in any order,
\* at most one of them self-inconsistent; non_sealed_data is the data of the
\* task the answer was computed from
AnswerLists ==
    UNION {
      {[i \in 1..n |-> [seal_index |-> f[i].seal_index, version |-> f[i].version,
                        non_sealed_data |-> f[i].non_sealed_data,
                        valid |-> (i # bad)]] :
         f \in {g \in [1..n -> held] : \A i, j \in 1..n : i # j => g[i] # g[j]},
         bad \in 0..n}
      : n \in 0..Min(MaxAnswers, Cardinality(held))}

(***************************************************************************)
(* FlowRead: get_entries, load_sealed_data.                                *)
(***************************************************************************)
\* the Tempfix of get_entries: the first sector of batch 0 is left out
FirstChunkFix(chunk_index, offset) == chunk_index = 0 /\ offset = 0

RECURSIVE GetEntriesLoop(_, _, _, _)
GetEntriesLoop(db, slices, i, data) ==
    IF i > Len(slices) THEN [ret |-> "some", data |-> data]
    ELSE
      LET start_entry_index == slices[i][1]
          end_entry_index == slices[i][2]
          chunk_index == start_entry_index \div batch_size
          offset0 == start_entry_index - chunk_index * batch_size
          length0 == end_entry_index - start_entry_index
          fix == FirstChunkFix(chunk_index, offset0)
          offset == IF fix THEN 1 ELSE offset0
          length == IF fix THEN length0 - 1 ELSE length0
          entry_batch == IF chunk_index \in BatchIdx THEN db[chunk_index] ELSE NoBatch
          got == BatchGetUnsealedData(entry_batch, offset, length)
      IN IF ~entry_batch.present \/ ~got.some
         THEN [ret |-> "none", data |-> <<>>]
         ELSE GetEntriesLoop(db, slices, i + 1, data \o got.data)

\* mutant: a batch that is absent or cannot supply its range is passed over
GetEntriesPartial(db, index_start, index_end) ==
    LET slices == batch_iter(index_start, index_end, batch_size)
        ok == SelectSeq(slices,
                        LAMBDA sl : GetEntriesLoop(db, <<sl>>, 1, <<>>).ret = "some")
    IN IF index_end <= index_start
       THEN [ret |-> "err", data |-> <<>>, start_index |-> index_start]
       ELSE GetEntriesLoop(db, ok, 1, <<>>) @@ [start_index |-> index_start]

\* FlowStore::get_entries: "err", "none" or "some" with the ChunkArray
GetEntries(db, index_start, index_end) ==
    IF index_end <= index_start
    THEN [ret |-> "err", data |-> <<>>, start_index |-> index_start]
    ELSE GetEntriesLoop(db, batch_iter(index_start, index_end, batch_size), 1, <<>>)
         @@ [start_index |-> index_start]

\* FlowStore::load_sealed_data: None, or the availabilities of the batch
LoadSealedData(db, chunk_index) ==
    IF ~db[chunk_index].present
    THEN [some |-> FALSE, availabilities |-> [u \in LocalSeal |-> FALSE]]
    ELSE [some |-> TRUE,
          availabilities |-> [u \in LocalSeal |->
                                BatchGetSealedData(db[chunk_index], u).some]]

(***************************************************************************)
(* The system.  Spec interleaves every call with every input of the        *)
(* bounds; SealSpec follows the sealing protocol further, with writes of   *)
(* whole seal units and calls that do not fail in the KV.                  *)
(***************************************************************************)
Init ==
    /\ kv = [b \in BatchIdx |-> NoBatch]
    /\ to_seal_set = <<>>
    /\ to_seal_version = 0
    /\ worker \in BOOLEAN
    /\ shard_config \in ShardConfigs
    /\ deleting = <<>>
    /\ inserting = <<>>
    /\ held = {}
    /\ pad_data_list = <<>>
    /\ pad_sync_height = <<>>
    /\ mpt_nodes = <<>>
    /\ last = [op |-> "new", ret |-> "ok"]
    /\ faulted = FALSE
    /\ nops = 0

DoAppend ==
    \E start \in 0..(NumSectors - 1), n \in 0..MaxLen, tag \in 0..(NumVals - 1),
       extra \in 0..(BYTES_PER_SECTOR - 1) :
      /\ nops < MaxOps
      /\ start + n <= NumSectors
      \* an empty write is tried where batch_iter yields no slice
      /\ n = 0 => start % batch_size = 0
      /\ \E failAt \in 0..(Len(batch_iter(start, start + n, batch_size)) + 1) :
           \* a call that fails is tried with one content only
           /\ extra # 0 => (failAt = 0 /\ tag = 0 /\ n <= 1)
           /\ failAt # 0 => tag = 0
           /\ AppendEntries(start, n, tag, extra, failAt)
           /\ UNCHANGED pad_vars

DoTruncate ==
    \E i \in 0..NumSectors, fail \in BOOLEAN :
      nops < MaxOps /\ Truncate(i, fail) /\ UNCHANGED pad_vars

DoPull ==
    \E m \in 0..NumSeals : nops < MaxOps /\ PullSealChunk(m) /\ UNCHANGED pad_vars

DoSubmit ==
    \E as \in AnswerLists, kvFail \in BOOLEAN :
      nops < MaxOps /\ SubmitSealResult(as, kvFail) /\ UNCHANGED pad_vars

DoDeleteSeal ==
    \E l \in (SUBSET BatchIdx) \ {{}} :
      nops < MaxOps /\ DeleteBatchListSeal(l) /\ UNCHANGED pad_vars

DoDeleteDb == \E fail \in BOOLEAN : DeleteBatchListDb(fail) /\ UNCHANGED pad_vars

DoUpdateShardConfig ==
    \E cfg \in ShardConfigs :
      nops < MaxOps /\ UpdateShardConfig(cfg) /\ UNCHANGED pad_vars

DoInsertLoad ==
    \E b \in BatchIdx, l \in 1..NumSubtrees :
      nops < MaxOps /\ InsertSubtreeLoad(b, l) /\ UNCHANGED pad_vars

DoInsertStore ==
    \E fail \in BOOLEAN : InsertSubtreeStore(fail) /\ UNCHANGED pad_vars

Next ==
    \/ DoAppend
    \/ DoTruncate
    \/ DoPull
    \/ DoSubmit
    \/ DoDeleteSeal
    \/ DoDeleteDb
    \/ DoUpdateShardConfig
    \/ DoInsertLoad
    \/ DoInsertStore
    \/ WorkerTimeout

Spec == Init /\ [][Next]_vars

SealAppend ==
    \E u \in SealIdx, k \in 1..SEALS_PER_LOAD :
      /\ nops < MaxSealOps
      /\ (u + k) * SECTORS_PER_SEAL <= NumSectors
      /\ AppendEntries(u * SECTORS_PER_SEAL, k * SECTORS_PER_SEAL, 0, 0, 0)
      /\ UNCHANGED pad_vars

SealTruncate ==
    \E i \in 0..NumSectors :
      nops < MaxSealOps /\ Truncate(i, FALSE) /\ UNCHANGED pad_vars

SealPull ==
    \E m \in 0..NumSeals :
      nops < MaxSealOps /\ PullSealChunk(m) /\ UNCHANGED pad_vars

SealSubmit ==
    \E as \in AnswerLists :
      nops < MaxSealOps /\ SubmitSealResult(as, FALSE) /\ UNCHANGED pad_vars

SealNext ==
    \/ SealAppend
    \/ SealTruncate
    \/ SealPull
    \/ SealSubmit

SealSpec == Init /\ [][SealNext]_vars

(***************************************************************************)
(* ShardSpec: the sealing protocol of SealSpec with changes of the shard   *)
(* configuration and delete_batch_list, in shorter runs.                   *)
(***************************************************************************)
ShardAppend ==
    \E u \in SealIdx, k \in 1..SEALS_PER_LOAD :
      /\ nops < MaxShardOps
      /\ (u + k) * SECTORS_PER_SEAL <= NumSectors
      /\ AppendEntries(u * SECTORS_PER_SEAL, k * SECTORS_PER_SEAL, 0, 0, 0)
      /\ UNCHANGED pad_vars

ShardTruncate ==
    \E i \in 0..NumSectors :
      nops < MaxShardOps /\ Truncate(i, FALSE) /\ UNCHANGED pad_vars

ShardPull ==
    \E m \in 0..NumSeals :
      nops < MaxShardOps /\ PullSealChunk(m) /\ UNCHANGED pad_vars

ShardSubmit ==
    \E as \in AnswerLists :
      nops < MaxShardOps /\ SubmitSealResult(as, FALSE) /\ UNCHANGED pad_vars

ShardUpdate ==
    \E cfg \in ShardConfigs :
      nops < MaxShardOps /\ UpdateShardConfig(cfg) /\ UNCHANGED pad_vars

ShardDeleteSeal ==
    \E l \in (SUBSET BatchIdx) \ {{}} :
      nops < MaxShardOps /\ DeleteBatchListSeal(l) /\ UNCHANGED pad_vars

ShardDeleteDb == DeleteBatchListDb(FALSE) /\ UNCHANGED pad_vars

ShardNext ==
    \/ ShardAppend
    \/ ShardTruncate
    \/ ShardPull
    \/ ShardSubmit
    \/ ShardUpdate
    \/ ShardDeleteSeal
    \/ ShardDeleteDb

ShardSpec == Init /\ [][ShardNext]_vars

\* the store after construction, unsharded, a sealer polling
InitOne == Init /\ worker /\ shard_config = [num_shard |-> 1, shard_id |-> 0]

(***************************************************************************)
(* StaleSpec: seal units written once each with one of several contents,   *)
(* pulled, deleted with their batch, written again and answered.           *)
(***************************************************************************)
StaleAppend ==
    \E u \in SealIdx, tag \in 0..(NumVals - 1) :
      /\ nops < MaxStaleOps
      \* no sector of the unit is in the KV
      /\ \A o \in UnitOffsets(u % SEALS_PER_LOAD) :
           kv[u \div SEALS_PER_LOAD].data[o] = 0
      /\ AppendEntries(u * SECTORS_PER_SEAL, SECTORS_PER_SEAL, tag, 0, 0)
      /\ UNCHANGED pad_vars

StalePull ==
    \E m \in 0..NumSeals :
      nops < MaxStaleOps /\ PullSealChunk(m) /\ UNCHANGED pad_vars

StaleSubmit ==
    \E as \in AnswerLists :
      nops < MaxStaleOps /\ SubmitSealResult(as, FALSE) /\ UNCHANGED pad_vars

StaleDeleteSeal ==
    \E l \in (SUBSET BatchIdx) \ {{}} :
      nops < MaxStaleOps /\ DeleteBatchListSeal(l) /\ UNCHANGED pad_vars

StaleDeleteDb == DeleteBatchListDb(FALSE) /\ UNCHANGED pad_vars

StaleNext ==
    \/ StaleAppend
    \/ StalePull
    \/ StaleSubmit
    \/ StaleDeleteSeal
    \/ StaleDeleteDb

StaleSpec == InitOne /\ [][StaleNext]_vars

(***************************************************************************)
(* LiveSpec: writers that stop after MaxLiveOps calls, and a sealer that   *)
(* keeps polling: it pulls with a max above every key when it holds no     *)
(* task, and answers every task it holds correctly, in the order pulled.   *)
(***************************************************************************)
LiveAppend ==
    \E u \in SealIdx, k \in 1..SEALS_PER_LOAD :
      /\ nops < MaxLiveOps
      /\ (u + k) * SECTORS_PER_SEAL <= NumSectors
      /\ AppendEntries(u * SECTORS_PER_SEAL, k * SECTORS_PER_SEAL, 0, 0, 0)
      /\ UNCHANGED pad_vars

LiveTruncate ==
    \E i \in 0..NumSectors :
      nops < MaxLiveOps /\ Truncate(i, FALSE) /\ UNCHANGED pad_vars

LiveDeleteSeal ==
    \E l \in (SUBSET BatchIdx) \ {{}} :
      nops < MaxLiveOps /\ DeleteBatchListSeal(l) /\ UNCHANGED pad_vars

LiveDeleteDb == DeleteBatchListDb(FALSE) /\ UNCHANGED pad_vars

\* the sealer asks for work when it holds none
SealerPull ==
    \E m \in NumSeals..(NumSeals + 1) :
      /\ held = {}
      /\ PullSealChunkCall(m)
      /\ UNCHANGED <<nops, pad_vars>>

\* the correct answers for the tasks held, ascending
SealerAnswers ==
    {as \in AnswerLists :
       /\ Len(as) = Cardinality(held)
       /\ \A i \in 1..Len(as) : as[i].valid
       /\ \A i, j \in 1..Len(as) : i < j => as[i].seal_index < as[j].seal_index}

\* the sealer submits the answers of the tasks it holds
SealerSubmit ==
    \E as \in SealerAnswers :
      /\ held # {}
      /\ SubmitSealResultCall(as, FALSE)
      /\ UNCHANGED <<nops, pad_vars>>

LiveNext ==
    \/ LiveAppend
    \/ LiveTruncate
    \/ LiveDeleteSeal
    \/ LiveDeleteDb
    \/ SealerPull
    \/ SealerSubmit

LiveSpec ==
    InitOne /\ [][LiveNext]_vars /\ WF_vars(SealerPull) /\ WF_vars(SealerSubmit)

(***************************************************************************)
(* PadSpec: the pad metadata.  IterSpec: the batch iterators applied to    *)
(* the ranges and batch sizes of the bounds.                               *)
(***************************************************************************)
\* the pad pairs tried: the two fields differ
PadPairs ==
    {p \in [start_index : (MaxPadVal - 1)..MaxPadVal,
            data_size : (MaxPadVal - 1)..MaxPadVal] : p.start_index # p.data_size}

PadLists == UNION {[1..n -> PadPairs] : n \in 0..MaxPadLen}

DoPutPadData ==
    \E l \in PadLists, t \in 0..MaxTxSeq, fail \in BOOLEAN : PutPadData(l, t, fail)

DoPutPadDataSyncHeight ==
    \E h \in 0..MaxTxSeq, fail \in BOOLEAN : PutPadDataSyncHeight(h, fail)

PadNext ==
    \/ DoPutPadData
    \/ DoPutPadDataSyncHeight

PadSpec == InitOne /\ [][PadNext]_vars

(***************************************************************************)
(* MptSpec: transactions of one NodeTransaction call each, committed.      *)
(***************************************************************************)
MptPositions == {<<l, p>> : l \in 0..MaxLayer, p \in 0..MaxPos}

DoSaveNode ==
    \E l \in 0..MaxLayer, p \in 0..MaxPos, r \in 1..NumRoots, fail \in BOOLEAN :
      Commit("save_node", save_node(<<>>, l, p, r), fail)

DoSaveNodeList ==
    \E n \in 0..MaxNodeList :
      \E nodes \in [1..n -> {<<l, p, r>> : l \in 0..MaxLayer, p \in 0..MaxPos,
                                            r \in 1..NumRoots}] :
        Commit("save_node_list", save_node_list(<<>>, nodes), FALSE)

DoRemoveNodeList ==
    \E n \in 0..MaxNodeList :
      \E nodes \in [1..n -> MptPositions] :
        Commit("remove_node_list", remove_node_list(<<>>, nodes), FALSE)

DoSaveLayerSize ==
    \E l \in 0..MaxLayer, size \in 0..MaxLayerSize, fail \in BOOLEAN :
      Commit("save_layer_size", save_layer_size(<<>>, l, size), fail)

DoRemoveLayerSize ==
    \E l \in 0..MaxLayer :
      Commit("remove_layer_size", remove_layer_size(<<>>, l), FALSE)

MptNext ==
    \/ DoSaveNode
    \/ DoSaveNodeList
    \/ DoRemoveNodeList
    \/ DoSaveLayerSize
    \/ DoRemoveLayerSize

MptSpec == InitOne /\ [][MptNext]_vars

IterShardConfigs ==
    {[num_shard |-> 1, shard_id |-> 0],
     [num_shard |-> 2, shard_id |-> 0],
     [num_shard |-> 2, shard_id |-> 1]}

DoBatchIter ==
    \E start \in 0..MaxIterEnd, end \in 0..MaxIterEnd, bs \in 1..MaxIterBatch,
       cfg \in IterShardConfigs :
      BatchIterCall(start, end, bs, cfg)

IterNext == DoBatchIter

IterSpec == InitOne /\ [][IterNext]_vars

(***************************************************************************)
(* Properties.                                                             *)
(***************************************************************************)
\* the step is a call of op that has just returned
Called(op) == nops' = nops + 1 /\ last'.op = op

BatchOfSeal(k) == k \div SEALS_PER_LOAD

\* batch b is in the local shard
InShard(b) == b % shard_config.num_shard = shard_config.shard_id

PendingMirrored ==
    \A k \in DOMAIN to_seal_set :
      /\ kv[BatchOfSeal(k)].present
      /\ BatchGetNonSealedData(kv[BatchOfSeal(k)], k % SEALS_PER_LOAD).some

\* C1: in every reachable state every key of the pending set refers to a
\* batch that is in the KV and holds non-sealed data for the unit, and the
\* lookups of pull_seal_chunk do not fail.  Stated for the runs in which no
\* KV or in-batch operation has failed (C9 is about those).
C1_PendingSetMirrorsBatches ==
    ~faulted =>
      /\ PendingMirrored
      /\ last.op = "pull_seal_chunk" => last.ret # "panic"

\* the answers of the list that matched the pending set when the call began
Matched(set, answers) ==
    {i \in 1..Len(answers) :
       /\ answers[i].seal_index \in DOMAIN set
       /\ set[answers[i].seal_index] = answers[i].version}

IsSealedIn(db, k) ==
    LET l == LoadSealedData(db, BatchOfSeal(k))
    IN l.some /\ l.availabilities[k % SEALS_PER_LOAD]

\* every matching answer is out of the pending set and sealed in the KV
AllMatchedSealed(set, answers, set2, db2) ==
    \A i \in Matched(set, answers) :
      /\ answers[i].seal_index \notin DOMAIN set2
      /\ IsSealedIn(db2, answers[i].seal_index)

\* the matching answers of one batch are next to each other
GroupedByBatch(set, answers) ==
    \A i, j, k \in Matched(set, answers) :
      (i < j /\ j < k /\ BatchOfSeal(answers[i].seal_index) = BatchOfSeal(answers[k].seal_index))
        => BatchOfSeal(answers[j].seal_index) = BatchOfSeal(answers[i].seal_index)

\* C2 as stated: after a successful submit_seal_result(answers), for any
\* list in any order, every answer that matched the pending set is out of the
\* pending set and its unit is sealed in the persisted batch.
C2_AnyOrderSealsAll ==
    [][(Called("submit_seal_result") /\ last'.ret = "ok")
         => AllMatchedSealed(to_seal_set, last'.answers, to_seal_set', kv')]_vars

\* C2 amended: the same, for the lists in which the matching answers of one
\* batch are adjacent.
C2_GroupedSealsAll ==
    [][(Called("submit_seal_result") /\ last'.ret = "ok"
        /\ GroupedByBatch(to_seal_set, last'.answers))
         => AllMatchedSealed(to_seal_set, last'.answers, to_seal_set', kv')]_vars

\* a successful submit whose accepted answers are of two batches
C2_Witness ==
    /\ last.op = "submit_seal_result"
    /\ last.ret = "ok"
    /\ \E i, j \in 1..Len(last.accepted) :
         BatchOfSeal(last.accepted[i].seal_index) # BatchOfSeal(last.accepted[j].seal_index)
    /\ \A i \in 1..Len(last.accepted) : IsSealedIn(kv, last.accepted[i].seal_index)

\* the call changed the state of seal unit k: it left the pending set, or
\* its sealed flag changed
UnitChanged(k) ==
    \/ k \in DOMAIN to_seal_set /\ k \notin DOMAIN to_seal_set'
    \/ k \notin DOMAIN to_seal_set /\ k \in DOMAIN to_seal_set'
    \/ (k \in DOMAIN to_seal_set /\ k \in DOMAIN to_seal_set'
        /\ to_seal_set[k] # to_seal_set'[k])
    \/ IsSealedIn(kv, k) # IsSealedIn(kv', k)

\* C3: submit_seal_result applies an answer only if the pending set maps its
\* seal_index to exactly its version; a list of answers that are all stale
\* (other version, or seal_index not pending) is dropped without error and
\* leaves the pending set and the batches as they were.
C3_OnlyMatchingAnswersApplied ==
    [][Called("submit_seal_result")
         => /\ \A k \in SealIdx :
                 UnitChanged(k) =>
                   \E i \in Matched(to_seal_set, last'.answers) :
                     last'.answers[i].seal_index = k
            /\ \A b \in BatchIdx :
                 kv'[b].present = kv[b].present /\ kv'[b].data = kv[b].data
            /\ Matched(to_seal_set, last'.answers) = {}
                 => /\ last'.ret = "ok"
                    /\ to_seal_set' = to_seal_set
                    /\ kv' = kv]_vars

\* an answer pulled before a truncate is submitted after it, when its unit
\* is pending again at a newer version, and nothing is applied
C3_Witness ==
    /\ last.op = "submit_seal_result"
    /\ last.ret = "ok"
    /\ last.accepted = <<>>
    /\ \E i \in 1..Len(last.answers) :
         /\ last.answers[i].seal_index \in DOMAIN to_seal_set
         /\ last.answers[i].version < to_seal_set[last.answers[i].seal_index]

VersionsOf(set) == {set[k] : k \in DOMAIN set}

\* C4: after a successful truncate(I) the pending set has no key at or above
\* I / SECTORS_PER_SEAL, and every unit the truncate re-inserted carries a
\* version above every version of the pending set and the version counter
\* before the call.
C4_TruncateCascade ==
    [][(Called("truncate") /\ last'.ret = "ok")
         => /\ \A k \in DOMAIN to_seal_set' : k < last'.start \div SECTORS_PER_SEAL
            /\ \A i \in 1..Len(last'.reseal) :
                 /\ last'.reseal[i] \in DOMAIN to_seal_set'
                 /\ to_seal_set'[last'.reseal[i]] > to_seal_version
                 /\ \A v \in VersionsOf(to_seal_set) :
                      to_seal_set'[last'.reseal[i]] > v]_vars

\* a truncate that re-queued a sealed unit, next to an older pending entry
C4_Witness ==
    /\ last.op = "truncate"
    /\ last.ret = "ok"
    /\ last.reseal # <<>>
    /\ \E k \in DOMAIN to_seal_set : to_seal_set[k] < to_seal_version

\* the batches the sectors [start, start + n) lie in
BatchesOf(start, n) == {b \in BatchIdx : \E x \in start..(start + n - 1) : x \div batch_size = b}

\* the write that has just been accepted, all of it in the local shard
AcceptedInShard ==
    /\ last.op = "append_entries"
    /\ last.ret = "ok"
    /\ \A b \in BatchesOf(last.start, last.len) : InShard(b)

\* the bytes get_entries owes for the write: all of them, without the first
\* sector when the write begins at sector 0
Owed == IF last.start = 0 /\ last.len > 0
        THEN Tail(MkData(last.tag, last.len))
        ELSE MkData(last.tag, last.len)

ReadBack ==
    LET g == GetEntries(kv, last.start, last.start + last.len)
    IN g.ret = "some" /\ g.start_index = last.start /\ g.data = Owed

SameFromZeroAndOne ==
    LET g0 == GetEntries(kv, 0, last.len)
        g1 == GetEntries(kv, 1, last.len)
    IN g0.ret = "some" /\ g1.ret = "some" /\ g0.data = g1.data

\* C5 as stated: for any aligned write W accepted by append_entries with all
\* its batches in the local shard, get_entries(W.start, W.start + n) right
\* after it returns W's bytes with start_index = W.start, less the first
\* sector when the range begins at sector 0; get_entries(0, n) and
\* get_entries(1, n) return the same bytes.
C5_RoundTripAnyWrite ==
    AcceptedInShard => (ReadBack /\ (last.start = 0 => SameFromZeroAndOne))

\* C5 amended: the same for a write of at least one sector, and
\* get_entries(0, n) = get_entries(1, n) when n >= 2.
C5_RoundTrip ==
    (AcceptedInShard /\ last.len >= 1)
      => (ReadBack /\ ((last.start = 0 /\ last.len >= 2) => SameFromZeroAndOne))

\* a write over two batches from sector 0 has been read back
C5_Witness ==
    /\ AcceptedInShard
    /\ last.start = 0
    /\ last.len > batch_size
    /\ ReadBack
    /\ SameFromZeroAndOne

\* C6: append_entries creates no batch row and no pending-set entry for a
\* batch outside the local shard: such rows and their pending entries are
\* after the call what they were before it.
C6_ShardFiltering ==
    [][Called("append_entries")
         => \A b \in BatchIdx :
              ~InShard(b) =>
                /\ kv'[b] = kv[b]
                /\ \A k \in SealIdx :
                     BatchOfSeal(k) = b =>
                       /\ (k \in DOMAIN to_seal_set') = (k \in DOMAIN to_seal_set)
                       /\ k \in DOMAIN to_seal_set => to_seal_set'[k] = to_seal_set[k]]_vars

\* an accepted write over a batch in the shard and a batch outside it, the
\* one written and the other not
C6_Witness ==
    /\ last.op = "append_entries"
    /\ last.ret = "ok"
    /\ \E b, c \in BatchesOf(last.start, last.len) :
         /\ InShard(b) /\ kv[b].present
         /\ ~InShard(c) /\ ~kv[c].present

\* C7: a result of pull_seal_chunk(max) that is not None is a non-empty list
\* of at most SEALS_PER_LOAD tasks, strictly ascending by seal_index, all of
\* the batch of the smallest pending key, all below max, each with the
\* version the pending set holds; the result is None exactly when the
\* pending set is empty or its smallest key is at or above max.
C7_PullResult ==
    last.op = "pull_seal_chunk" =>
      LET keys == DOMAIN to_seal_set
          none == keys = {} \/ (\A k \in keys : k >= last.max)
          t == last.tasks
      IN /\ (last.ret = "none") = none
         /\ last.ret = "some" =>
              /\ Len(t) >= 1
              /\ Len(t) <= SEALS_PER_LOAD
              /\ \A i \in 1..(Len(t) - 1) : t[i].seal_index < t[i + 1].seal_index
              /\ \A i \in 1..Len(t) :
                   /\ t[i].seal_index \in keys
                   /\ t[i].seal_index < last.max
                   /\ t[i].version = to_seal_set[t[i].seal_index]
                   /\ \A k \in keys : BatchOfSeal(t[i].seal_index) <= BatchOfSeal(k)

\* a pull that left out a pending key of its batch, at or above max, and a
\* pending key of another batch
C7_Witness ==
    /\ last.op = "pull_seal_chunk"
    /\ last.ret = "some"
    /\ \E k \in DOMAIN to_seal_set :
         /\ k >= last.max
         /\ BatchOfSeal(k) = BatchOfSeal(last.tasks[1].seal_index)
    /\ \E k \in DOMAIN to_seal_set :
         BatchOfSeal(k) # BatchOfSeal(last.tasks[1].seal_index)

\* the row of a batch cut at offset: the sectors below offset, no unit
\* sealed; no row when no sector is left
CutAt(b, offset) ==
    IF \A o \in Offsets : o < offset => b.data[o] = 0
    THEN NoBatch
    ELSE [present |-> TRUE,
          data |-> [o \in Offsets |-> IF o < offset THEN b.data[o] ELSE 0],
          sealed |-> {},
          subtree |-> b.subtree]

\* C8: after a successful truncate(I) with batch size B every batch below
\* floor(I / B) is unchanged, no batch from ceil(I / B) on is left, and when
\* I mod B # 0 the batch floor(I / B), if it was there, is rewritten cut at
\* I mod B, or deleted when nothing of it is left.
C8_TruncateBatches ==
    [][(Called("truncate") /\ last'.ret = "ok")
         => LET I == last'.start
                lo == I \div batch_size
                hi == (I + batch_size - 1) \div batch_size
            IN \A b \in BatchIdx :
                 /\ b < lo => kv'[b] = kv[b]
                 /\ b >= hi => ~kv'[b].present
                 /\ (I % batch_size # 0 /\ b = lo) =>
                      kv'[b] = IF kv[b].present THEN CutAt(kv[b], I % batch_size)
                               ELSE NoBatch]_vars

\* a truncate inside batch 1 that kept batch 0, cut batch 1 and left sectors
\* in it
C8_Witness ==
    /\ last.op = "truncate"
    /\ last.ret = "ok"
    /\ last.start % batch_size # 0
    /\ last.start \div batch_size = 1
    /\ kv[0].present
    /\ kv[1].present

\* C9: when append_entries, truncate or submit_seal_result returns an error,
\* the pending set, the seal version counter and the batches are as they
\* were before the call.
C9_ErrorLeavesNoEffect ==
    [][((Called("append_entries") \/ Called("truncate") \/ Called("submit_seal_result"))
        /\ last'.ret = "err")
         => UNCHANGED <<to_seal_set, to_seal_version, kv>>]_vars

\* C10: append_entries with data whose length is not a multiple of
\* BYTES_PER_SECTOR returns an error and leaves the KV and the pending set
\* as they were.
C10_MisalignedRejected ==
    [][(Called("append_entries")
        /\ (last'.len * BYTES_PER_SECTOR + last'.extra) % BYTES_PER_SECTOR # 0)
         => /\ last'.ret = "err"
            /\ kv' = kv
            /\ to_seal_set' = to_seal_set]_vars

\* a misaligned write was refused by a store that holds a batch
C10_Witness ==
    /\ last.op = "append_entries"
    /\ last.extra # 0
    /\ last.ret = "err"
    /\ \E b \in BatchIdx : kv[b].present

\* C11: in every reachable state every batch row of the KV has an index
\* inside the current local shard (batch_index mod num_shard = shard_id).
C11_RowsInShard == \A b \in BatchIdx : kv[b].present => InShard(b)

\* the in-shard batches the write [start, start + n) touches
TouchedInShard(start, n) == {b \in BatchesOf(start, n) : InShard(b)}

\* C12: a successful append_entries returns exactly the touched batches
\* that are complete after the write, in strictly ascending batch-index
\* order, and every touched in-shard batch is persisted with the sectors of
\* the write, complete or not.
C12_RootsOfCompletedBatches ==
    [][(Called("append_entries") /\ last'.ret = "ok")
         => LET touched == TouchedInShard(last'.start, last'.len)
                r == last'.roots
            IN /\ {r[i] : i \in 1..Len(r)} = {b \in touched : BatchBuildRoot(kv'[b])}
               /\ \A i \in 1..(Len(r) - 1) : r[i] < r[i + 1]
               /\ \A b \in touched :
                    /\ kv'[b].present
                    /\ \A x \in last'.start..(last'.start + last'.len - 1) :
                         x \div batch_size = b =>
                           kv'[b].data[x % batch_size] =
                             SectorVal(last'.tag, x - last'.start + 1)]_vars

\* a write over two batches that completed one of them and left the other
\* incomplete, both persisted
C12_Witness ==
    /\ last.op = "append_entries"
    /\ last.ret = "ok"
    /\ Len(last.roots) = 1
    /\ Cardinality(TouchedInShard(last.start, last.len)) = 2
    /\ \A b \in TouchedInShard(last.start, last.len) : kv[b].present

\* the sectors of [s, e) a read asks the batches for: all but sector 0
Requested(s, e) == {x \in s..(e - 1) : x # 0}

\* every batch overlapping [s, e) is present and holds every requested sector
AllAvailable(db, s, e) ==
    /\ \A x \in s..(e - 1) : x \div batch_size \in BatchIdx /\ db[x \div batch_size].present
    /\ \A x \in Requested(s, e) : db[x \div batch_size].data[x % batch_size] # 0

\* the requested sectors in ascending order
WholeRange(db, s, e) ==
    LET first == IF s = 0 THEN 1 ELSE s
    IN [i \in 1..(e - first) |->
          db[(first + i - 1) \div batch_size].data[(first + i - 1) % batch_size]]

\* C13: get_entries(start, end) is all-or-nothing: an error when
\* end <= start; otherwise None when a batch overlapping [start, end) is
\* absent or cannot supply its whole requested sub-range, and else the
\* whole requested range (sector 0 is never requested), never a part of it.
C13_AllOrNothing ==
    \A s \in 0..NumSectors, e \in 0..NumSectors :
      LET g == GetEntries(kv, s, e)
      IN /\ (g.ret = "err") = (e <= s)
         /\ e > s =>
              /\ (g.ret = "some") = AllAvailable(kv, s, e)
              /\ g.ret = "some" =>
                   g.start_index = s /\ g.data = WholeRange(kv, s, e)

\* a range over two batches of which the first is whole and the second is
\* not: nothing is returned for it, the first batch alone is returned
C13_Witness ==
    /\ GetEntries(kv, 1, NumSectors).ret = "none"
    /\ GetEntries(kv, 1, batch_size).ret = "some"
    /\ kv[1].present

\* the KV after truncate(I) on db
TruncatedOnce(db, I) == db_truncate(db, I, batch_size).kv

\* C14: truncate is idempotent on the persisted state: for every index I
\* and every store state a call leaves, the KV after truncate(I) followed by
\* truncate(I) is the KV after one truncate(I); a successful truncate(I)
\* that follows a successful truncate(I) leaves the KV as it is.
C14_TruncateIdempotent ==
    [][/\ \A I \in 0..NumSectors :
            TruncatedOnce(TruncatedOnce(kv', I), I) = TruncatedOnce(kv', I)
       /\ (Called("truncate") /\ last'.ret = "ok"
           /\ last.op = "truncate" /\ last.ret = "ok" /\ last.start = last'.start)
            => kv' = kv]_vars

\* a truncate that cut a batch, unsealed a unit of it and deleted a later
\* batch
C14_Witness ==
    /\ last.op = "truncate"
    /\ last.ret = "ok"
    /\ last.start % batch_size # 0
    /\ last.start \div batch_size = 0
    /\ last.reseal # <<>>
    /\ kv[0].present

\* C15: after update_shard_config(cfg) every append_entries leaves the
\* batches outside cfg's shard as they were, and every pull_seal_chunk
\* returns only tasks whose batch is inside cfg's shard, also for units that
\* were pending before the configuration changed.
C15_AppendsAndPullsHonorShard ==
    [][/\ Called("append_entries")
            => \A b \in BatchIdx : ~InRange(shard_config', b) => kv'[b] = kv[b]
       /\ (Called("pull_seal_chunk") /\ last'.ret = "some")
            => \A i \in 1..Len(last'.tasks) :
                 InRange(shard_config', BatchOfSeal(last'.tasks[i].seal_index))]_vars

\* seal unit k is complete in the KV, not sealed and not pending
UnqueuedUnit(k) ==
    /\ k \notin DOMAIN to_seal_set
    /\ kv[BatchOfSeal(k)].present
    /\ UnitPresent(kv[BatchOfSeal(k)], k % SEALS_PER_LOAD)
    /\ (k % SEALS_PER_LOAD) \notin kv[BatchOfSeal(k)].sealed

\* the write [start, start + n) writes a sector of seal unit k
WritesUnit(start, n, k) ==
    \E x \in start..(start + n - 1) : x \div SECTORS_PER_SEAL = k

\* what C16 says of every call but the later appends
UnqueuedElsewhere ==
    /\ (Called("append_entries") /\ ~worker) => to_seal_set' = to_seal_set
    /\ (Called("pull_seal_chunk") \/ Called("submit_seal_result"))
         => \A k \in SealIdx : UnqueuedUnit(k) => k \notin DOMAIN to_seal_set'
    /\ Called("truncate")
         => \A k \in SealIdx :
              (UnqueuedUnit(k) /\ k \in DOMAIN to_seal_set')
                => \E i \in 1..Len(last'.reseal) : last'.reseal[i] = k
    /\ (Called("append_entries") /\ worker /\ last'.ret = "ok")
         => \A k \in SealIdx :
              (InShard(BatchOfSeal(k))
               /\ WritesUnit(last'.start, last'.len, k)
               /\ UnitPresent(kv'[BatchOfSeal(k)], k % SEALS_PER_LOAD))
                => (k \in DOMAIN to_seal_set' /\ to_seal_set'[k] = to_seal_version)

C17_BatchIterCoversRange ==
    (last.op = "batch_iter" /\ last.start < last.end) =>
      LET r == last.out
          B == last.bs
      IN /\ Len(r) >= 1
         /\ r[1][1] = last.start
         /\ r[Len(r)][2] = last.end
         /\ \A i \in 1..Len(r) :
              /\ r[i][1] < r[i][2]
              /\ r[i][1] \div B = (r[i][2] - 1) \div B
         /\ \A i \in 1..(Len(r) - 1) : r[i][2] = r[i + 1][1]
         /\ last.sharded =
              SelectSeq(r, LAMBDA x :
                             (x[1] \div B) % last.cfg.num_shard = last.cfg.shard_id)

\* a range that begins and ends inside batches and spans three of them, of
\* which the shard holds some and not all
C17_Witness ==
    /\ last.op = "batch_iter"
    /\ last.start % last.bs # 0
    /\ last.end % last.bs # 0
    /\ Len(last.out) >= 3
    /\ Len(last.sharded) >= 1
    /\ Len(last.sharded) < Len(last.out)

\* what get_pad_data returns for each tx_seq
PadReads(db) == [t \in 0..MaxTxSeq |-> get_pad_data(db, t)]

\* C18: pad metadata round-trips per key: after put_pad_data(pairs, tx_seq)
\* get_pad_data(tx_seq) returns the same pairs in the same order and
\* get_pad_data of every other tx_seq is unchanged; a tx_seq never written
\* reads None; get_pad_data_sync_height is None before any put and afterwards
\* the value of the most recent put_pad_data_sync_height.
C18_PadRoundTrip ==
    /\ \A t \in 0..MaxTxSeq : get_pad_data(pad_data_list, t).ret = "none"
    /\ get_pad_data_sync_height(pad_sync_height).ret = "none"
    /\ [][/\ (last'.op = "put_pad_data" /\ last'.ret = "ok")
                => /\ get_pad_data(pad_data_list', last'.tx_seq) =
                        [ret |-> "some", pairs |-> last'.pairs]
                   /\ \A t \in 0..MaxTxSeq :
                        t # last'.tx_seq =>
                          get_pad_data(pad_data_list', t) = get_pad_data(pad_data_list, t)
                   /\ get_pad_data_sync_height(pad_sync_height') =
                        get_pad_data_sync_height(pad_sync_height)
          /\ (last'.op = "put_pad_data_sync_height" /\ last'.ret = "ok")
                => /\ get_pad_data_sync_height(pad_sync_height') =
                        [ret |-> "some", height |-> last'.height]
                   /\ PadReads(pad_data_list') = PadReads(pad_data_list)
          /\ last'.ret = "err"
                => /\ PadReads(pad_data_list') = PadReads(pad_data_list)
                   /\ get_pad_data_sync_height(pad_sync_height') =
                        get_pad_data_sync_height(pad_sync_height)]_vars

\* a list of two different pairs was stored for one tx_seq while another
\* tx_seq holds another list and a sync height is set
C18_Witness ==
    /\ last.op = "put_pad_data"
    /\ last.ret = "ok"
    /\ Len(last.pairs) = 2
    /\ last.pairs[1] # last.pairs[2]
    /\ get_pad_data(pad_data_list, last.tx_seq).pairs = last.pairs
    /\ \E t \in 0..MaxTxSeq :
         /\ t # last.tx_seq
         /\ get_pad_data(pad_data_list, t).ret = "some"
         /\ get_pad_data(pad_data_list, t).pairs # last.pairs
    /\ get_pad_data_sync_height(pad_sync_height).ret = "some"

\* the pending keys of batch b refer to non-sealed data of the row db holds
MirroredIn(set, db, b) ==
    \A k \in DOMAIN set :
      BatchOfSeal(k) = b =>
        /\ db[b].present
        /\ BatchGetNonSealedData(db[b], k % SEALS_PER_LOAD).some

\* C19: when insert_subtree_list_for_batch runs concurrently with
\* append_entries or submit_seal_result on the same batch no update is lost:
\* the batch its write leaves in the KV holds the subtree list it was given
\* and the sectors and sealed state the other operation persisted, and the
\* pending set still agrees with that batch.
C19_NoLostUpdate ==
    [][(last'.op = "insert_subtree_list_for_batch" /\ last'.ret = "ok"
        /\ inserting # <<>>)
         => LET b == inserting[1][1]
            IN /\ kv'[b].present
               /\ kv'[b].subtree = inserting[1][2].subtree
               /\ kv'[b].data = kv[b].data
               /\ kv'[b].sealed = kv[b].sealed
               /\ MirroredIn(to_seal_set', kv', b)]_vars

\* C20: the seal version counter starts at 0, never decreases, is raised by
\* exactly 1 by each successful truncate and left as it is by every other
\* call (append_entries, pull_seal_chunk, submit_seal_result,
\* delete_batch_list, update_shard_config); the units a truncate re-queues
\* carry the version before the call plus 1.
C20_SealVersionCounter ==
    /\ to_seal_version = 0
    /\ [][/\ to_seal_version' >= to_seal_version
          /\ (Called("truncate") /\ last'.ret = "ok")
               => /\ to_seal_version' = to_seal_version + 1
                  /\ \A i \in 1..Len(last'.reseal) :
                       /\ last'.reseal[i] \in DOMAIN to_seal_set'
                       /\ to_seal_set'[last'.reseal[i]] = to_seal_version + 1
          /\ ~(Called("truncate") /\ last'.ret = "ok")
               => to_seal_version' = to_seal_version]_vars

\* the first truncate re-queued a sealed unit, at version 1
C20_Witness ==
    /\ last.op = "truncate"
    /\ last.ret = "ok"
    /\ last.reseal # <<>>
    /\ to_seal_version = 1
    /\ \A i \in 1..Len(last.reseal) : to_seal_set[last.reseal[i]] = 1

\* what get_node returns for each (layer, position)
NodeReads(db) == [x \in MptPositions |-> get_node(db, x[1], x[2])]

\* what get_layer_size returns for each layer
LayerReads(db) == [l \in 0..MaxLayer |-> get_layer_size(db, l)]

\* C21: in FLOW_MPT_NODES the two key shapes never collide:
\* encode_mpt_node_key(layer, position) differs from layer_size_key(layer')
\* for all layer, position and layer'; so committing save_layer_size or
\* remove_layer_size never changes what get_node returns for any (layer,
\* position), and committing save_node, save_node_list or remove_node_list
\* never changes what get_layer_size returns for any layer.
C21_KeyShapesDoNotCollide ==
    [][/\ \A x \in MptPositions, l \in 0..MaxLayer :
            encode_mpt_node_key(x[1], x[2]) # layer_size_key(l)
       /\ last'.op \in {"save_layer_size", "remove_layer_size"}
            => NodeReads(mpt_nodes') = NodeReads(mpt_nodes)
       /\ last'.op \in {"save_node", "save_node_list", "remove_node_list"}
            => LayerReads(mpt_nodes') = LayerReads(mpt_nodes)]_vars

\* the size of layer 0 was removed while the node (0, 0) and the size of
\* layer 1 stay readable
C21_Witness ==
    /\ last.op = "remove_layer_size"
    /\ last.ret = "ok"
    /\ get_layer_size(mpt_nodes, 0).ret = "none"
    /\ get_layer_size(mpt_nodes, 1).ret = "some"
    /\ get_node(mpt_nodes, 0, 0).ret = "some"

\* C22: a seal answer is applied to a batch only when the non-sealed data
\* the batch holds for the unit when the answer is applied is the data that
\* was handed out in the SealTask the answer was computed from, in every
\* interleaving of append_entries, truncate, delete_batch_list,
\* pull_seal_chunk and submit_seal_result; an answer pulled before
\* delete_batch_list removed its batch is not applied after the batch was
\* written again with other data.
C22_AnswerAppliedToItsData ==
    [][(Called("submit_seal_result") /\ last'.ret = "ok")
         => \A i \in Matched(to_seal_set, last'.answers) :
              LET a == last'.answers[i]
                  got == BatchGetNonSealedData(kv[BatchOfSeal(a.seal_index)],
                                               a.seal_index % SEALS_PER_LOAD)
              IN got.some /\ got.data = a.non_sealed_data]_vars

\* the seal units a truncate returned for resealing
ResealSet(reseal) == {reseal[i] : i \in 1..Len(reseal)}

\* every version stored in the pending set is at most the counter
VersionsBounded(set, version) == \A k \in DOMAIN set : set[k] <= version

\* C24: in every reachable state each version stored in the pending set is
\* less than or equal to the seal version counter, and truncate(I) leaves
\* with the same key and the same version every pending entry whose key is
\* below I / SECTORS_PER_SEAL and which is not among the reseal units.
C24_VersionsBoundedAndKept ==
    /\ VersionsBounded(to_seal_set, to_seal_version)
    /\ [][/\ VersionsBounded(to_seal_set', to_seal_version')
          /\ (Called("truncate") /\ last'.ret = "ok")
               => \A k \in DOMAIN to_seal_set :
                    (k < last'.start \div SECTORS_PER_SEAL
                       /\ k \notin ResealSet(last'.reseal))
                      => (k \in DOMAIN to_seal_set'
                            /\ to_seal_set'[k] = to_seal_set[k])]_vars

\* a truncate has kept a pending entry below the cut at its older version
C24_Witness ==
    /\ last.op = "truncate"
    /\ last.ret = "ok"
    /\ \E k \in DOMAIN to_seal_set :
         /\ k < last.start \div SECTORS_PER_SEAL
         /\ k \notin ResealSet(last.reseal)
         /\ to_seal_set[k] < to_seal_version

\* C23: sealing makes progress: once no append_entries, truncate or
\* delete_batch_list occurs any more, and a sealer keeps calling
\* pull_seal_chunk with a max above every pending key and submits a correct
\* answer for every task it receives, the pending set eventually becomes
\* empty and pull_seal_chunk returns None from then on.
C23_SealingMakesProgress ==
    <>[](/\ DOMAIN to_seal_set = {}
         /\ last.op = "pull_seal_chunk" => last.ret = "none")

=============================================================================
